---- MODULE Spec2Model ----
(***************************************************************************)
(* Model of the video discovery and enrichment pipeline of                 *)
(* herald71/Youtube_project.                                               *)
(*                                                                         *)
(*   src/Youtube_search.py    fetch_youtube_data: paginated search and     *)
(*                            per-hit detail enrichment                   *)
(*   src/excel_summarizer.py  process_excel_thread and the coroutines it   *)
(*                            drives (title lookup, transcript, summary)   *)
(*                                                                         *)
(* The two programs share no state.  Each specification below runs one    *)
(* part against arbitrary inputs and services and leaves the variables of  *)
(* the others alone:                                                       *)
(*                                                                         *)
(*   SpecSearch   one call of fetch_youtube_data (SpecSearchFair: the loop *)
(*                keeps running)                                           *)
(*   SpecRun      one press of the run button, which calls it              *)
(*   SpecFormat   one call of format_duration                              *)
(*   SpecBatch    one batch run of process_excel_thread, row by row        *)
(*   SpecExtract  one call of extract_video_id                             *)
(*   SpecGui      the summarizer's window, its handlers and the threads    *)
(*                they start (SpecGuiFair: every thread keeps running)     *)
(***************************************************************************)
EXTENDS Integers, Sequences, FiniteSets, TLC

(***************************************************************************)
(* Bounds.  MaxResults stands for the page size the search request asks    *)
(* for (maxResults=50, Youtube_search.py:65) and HitCap for the cap of the *)
(* loop condition (200, Youtube_search.py:185); both are scaled down so    *)
(* that every combination of page sizes and per-hit outcomes is explored.  *)
(* Every formula below is stated in terms of the two names, never of       *)
(* their values.                                                           *)
(***************************************************************************)
MaxResults == 2

HitCap == 4

NumTokens == 2

(* rows of the input table, and consecutive failures the generation service
   may answer with before it would succeed *)
MaxRows == 2

MaxGenFailures == 2

(* longest identifier text a reference handed to extract_video_id is built
   around *)
MaxIdLen == 2

(* worker threads one session of the window starts *)
MaxThreads == 2
(* the days of the durations format_duration is called with range over
   0..MaxDays *)
MaxDays == 4

VARIABLES
    (* ---- fetch_youtube_data (Youtube_search.py) ---- *)
    fetch_pc,               \* "request" | "items" | "returned" | "raised"
    video_details,          \* the list of records built so far
    total_results_fetched,  \* hits of the pages completed so far
    next_page_token,        \* cursor of the last response, NoToken when absent
    search_items,           \* search_results['items'] of the page in hand
    index,                  \* enumerate() position of the last hit visited
    hitLog,                 \* history: every hit visited and its outcome, in order
    pageFailed,             \* history: a search request failed at transport level
    started,                \* history: a search response has been received
    request_token,          \* pageToken of the last search request, NoToken if it had none
    last_response,          \* history: the cursor of the last search response
    prev_response,          \* history: last_response as it was before the last request
    (* ---- run_gui.on_run_button_click (Youtube_search.py) ---- *)
    run_pc,                 \* "idle" | "rejected" | "fetching" | "saved" | "empty" | "error"
    search_query,           \* the query the handler read from its entry
    channel_id,             \* the channel id the handler read from its entry
    (* ---- one call of format_duration (Youtube_search.py) ---- *)
    arg_duration,           \* the argument: the fields of an ISO 8601 duration
    ret_duration,           \* the text returned, <<>> before the call
    (* ---- YouTubeSummarizerGUI and its worker (excel_summarizer.py) ---- *)
    processing,             \* self.processing, the cancellation flag
    worker_pc,              \* where process_excel_thread stands
    df,                     \* the input table: the URL cell of each row
    row,                    \* rows of df the for loop has passed
    results,                \* the list of records collected so far
    output,                 \* the output table, once written
    progress_var,           \* self.progress_var, as a fraction of the rows
    attempt,                \* get_video_title_async: the loop variable
    title,                  \* the title the lookup returned
    transcript,             \* language of the transcript in hand, "" if none
    original_text,          \* first component of the summary call's result
    summary,                \* second component of the summary call's result
    gen_plan,               \* service: generation requests that fail before one succeeds
    gen_attempts,           \* history: generation requests of the call in hand
    gen_delays,             \* history: delays between them
    call_log,               \* history: what the worker did for the row in hand, in order
    stop_in_flight,         \* history: stop_processing ran while that row was in flight
    exit,                   \* history: how the worker left its try block
    (* ---- one call of extract_video_id (excel_summarizer.py) ---- *)
    arg_url,                \* the argument
    ret_video_id,           \* what the call returned
    arg_shape,              \* history: the kind of reference the argument was built as
    arg_embedded,           \* history: the identifier text it was built around
    (* ---- the window and every worker thread it starts (excel_summarizer.py);
            self.processing and self.progress_var are the two variables above ---- *)
    threads,                \* the worker threads started so far, in start order
    buttons,                \* which of the four start and stop buttons are enabled
    current_tab,            \* the selected notebook tab: "url" (index 0) or "excel"
    dialog,                 \* the messagebox start_processing has open, "none" if none
    window                  \* "open" until exit_program has destroyed the root window

searchVars == <<fetch_pc, video_details, total_results_fetched, next_page_token,
                search_items, index, hitLog, pageFailed, started,
                request_token, last_response, prev_response>>

runVars == <<run_pc, search_query, channel_id>>

batchVars == <<processing, worker_pc, df, row, results, output, progress_var,
               attempt, title, transcript, original_text, summary,
               gen_plan, gen_attempts, gen_delays, call_log, stop_in_flight, exit>>

formatVars == <<arg_duration, ret_duration>>

extractVars == <<arg_url, ret_video_id, arg_shape, arg_embedded>>

guiVars == <<threads, buttons, current_tab, dialog, window>>

vars == <<searchVars, runVars, formatVars, batchVars, extractVars, guiVars>>

(* what a step of one program leaves alone: the state of the others *)
besideSearch == <<runVars, formatVars, batchVars, extractVars, guiVars>>

besideBatch == <<searchVars, runVars, formatVars, extractVars, guiVars>>

besideExtract == <<searchVars, runVars, formatVars, batchVars, guiVars>>

besideFormat == <<searchVars, runVars, batchVars, extractVars, guiVars>>

(* a step of the window or of one of its threads touches, outside guiVars,
   only self.processing and self.progress_var *)
besideGui ==
    <<searchVars, runVars, formatVars, extractVars, worker_pc, df, row, results, output, attempt, title,
      transcript, original_text, summary, gen_plan, gen_attempts, gen_delays,
      call_log, stop_in_flight, exit>>

(* Python None: the absent cursor *)
NoToken == 0

Tokens == 1..NumTokens

(***************************************************************************)
(* A hit is named by where the catalog handed it out: its 1-based position *)
(* in its page and the number of hits the catalog had handed out on the    *)
(* pages before.  The name is what item['id']['videoId'] (and so the URL   *)
(* column) carries.                                                        *)
(***************************************************************************)
PageOfHits(k, n) == [i \in 1..n |-> [pos |-> i, prior |-> k]]

(* the locals of fetch_youtube_data as the loop is entered *)
InitSearch ==
    /\ fetch_pc = "request"
    /\ video_details = <<>>
    /\ total_results_fetched = 0
    /\ next_page_token = NoToken
    /\ search_items = <<>>
    /\ index = 0
    /\ hitLog = <<>>
    /\ pageFailed = FALSE
    /\ started = FALSE
    /\ request_token = NoToken
    /\ last_response = [any |-> FALSE, token |-> NoToken]
    /\ prev_response = [any |-> FALSE, token |-> NoToken]

(* the pageToken parameter of the search URL: added only for a cursor that is
   true in Python *)
PageTokenParam(token) == IF token # NoToken THEN token ELSE NoToken

(* variant: the failed page request is tried again instead of ending the loop *)
SearchFails_retry ==
    /\ fetch_pc = "request"
    /\ fetch_pc' = "request"
    /\ pageFailed' = TRUE
    /\ request_token' = PageTokenParam(next_page_token)
    /\ prev_response' = last_response
    /\ UNCHANGED <<video_details, total_results_fetched, next_page_token,
                   search_items, index, hitLog, started, last_response>>
    /\ UNCHANGED besideSearch

(* requests.get of the search page raises RequestException: log and break *)
SearchFails ==
    /\ fetch_pc = "request"
    /\ fetch_pc' = "returned"
    /\ pageFailed' = TRUE
    /\ request_token' = PageTokenParam(next_page_token)
    /\ prev_response' = last_response
    /\ UNCHANGED <<video_details, total_results_fetched, next_page_token,
                   search_items, index, hitLog, started, last_response>>
    /\ UNCHANGED besideSearch

(* variant: a response without cursor leaves the cursor of the page before
   in place *)
SearchResponds_keepsCursor(n, tok) ==
    /\ fetch_pc = "request"
    /\ request_token' = PageTokenParam(next_page_token)
    /\ prev_response' = last_response
    /\ last_response' = [any |-> TRUE, token |-> tok]
    /\ search_items' = PageOfHits(Len(hitLog), n)
    /\ next_page_token' = IF tok = NoToken /\ n > 0 THEN next_page_token ELSE tok
    /\ index' = 0
    /\ started' = TRUE
    /\ fetch_pc' = "items"
    /\ UNCHANGED <<video_details, total_results_fetched, hitLog, pageFailed>>
    /\ UNCHANGED besideSearch

(* the search page arrives with n hits and an optional continuation cursor *)
SearchResponds(n, tok) ==
    /\ fetch_pc = "request"
    /\ request_token' = PageTokenParam(next_page_token)
    /\ prev_response' = last_response
    /\ last_response' = [any |-> TRUE, token |-> tok]
    /\ search_items' = PageOfHits(Len(hitLog), n)
    /\ next_page_token' = tok
    /\ index' = 0
    /\ started' = TRUE
    /\ fetch_pc' = "items"
    /\ UNCHANGED <<video_details, total_results_fetched, hitLog, pageFailed>>
    /\ UNCHANGED besideSearch

(* variant: records are numbered densely, by their place in the result *)
BuildRecord_dense(idx, video_id) ==
    [Index |-> Len(video_details) + 1, URL |-> video_id]

(* variant: the page position alone, without the offset of earlier pages *)
BuildRecord_noOffset(idx, video_id) ==
    [Index |-> idx, URL |-> video_id]

(* the record of one hit; Index is the page position plus the hits of the
   pages before *)
BuildRecord(idx, video_id) ==
    [Index |-> idx + total_results_fetched, URL |-> video_id]

(* one turn of the for loop over the page's hits *)
VisitHit(outcome) ==
    /\ fetch_pc = "items"
    /\ index < Len(search_items)
    /\ index' = index + 1
    /\ hitLog' = Append(hitLog, [hit |-> search_items[index + 1], outcome |-> outcome])
    /\ CASE outcome = "ok" ->
              /\ video_details' =
                    Append(video_details, BuildRecord(index + 1, search_items[index + 1]))
              /\ fetch_pc' = "items"
         [] outcome \in {"transport", "empty"} ->
              /\ video_details' = video_details
              /\ fetch_pc' = "items"
         [] outcome = "malformed" ->
              /\ video_details' = video_details
              /\ fetch_pc' = "raised"
    /\ UNCHANGED <<total_results_fetched, next_page_token, search_items,
                   pageFailed, started,
                   request_token, last_response, prev_response>>
    /\ UNCHANGED besideSearch

(* variant: a failed detail request ends the traversal (break, not continue) *)
DetailFails_break ==
    /\ fetch_pc = "items"
    /\ index < Len(search_items)
    /\ index' = index + 1
    /\ hitLog' = Append(hitLog, [hit |-> search_items[index + 1], outcome |-> "transport"])
    /\ fetch_pc' = "returned"
    /\ UNCHANGED <<video_details, total_results_fetched, next_page_token,
                   search_items, pageFailed, started,
                   request_token, last_response, prev_response>>
    /\ UNCHANGED besideSearch

(* the detail request raises RequestException: log and continue *)
DetailFails == VisitHit("transport")

(* the detail response holds no items: nothing is appended *)
DetailEmpty == VisitHit("empty")

(* the detail response holds the video: a record is appended *)
DetailOk == VisitHit("ok")

(* the detail response lacks a field the code indexes: the KeyError leaves
   fetch_youtube_data *)
DetailMalformed == VisitHit("malformed")

(* the loop's exit test after a page *)
StopPaging(token, total) == token = NoToken \/ total >= HitCap

(* after the page's last hit: accumulate, then break or loop *)
PageEnd ==
    /\ fetch_pc = "items"
    /\ index = Len(search_items)
    /\ total_results_fetched' = total_results_fetched + Len(search_items)
    /\ fetch_pc' = IF StopPaging(next_page_token, total_results_fetched')
                   THEN "returned" ELSE "request"
    /\ UNCHANGED <<video_details, next_page_token, search_items, index,
                   hitLog, pageFailed, started,
                   request_token, last_response, prev_response>>
    /\ UNCHANGED besideSearch

(***************************************************************************)
(* run_gui.on_run_button_click: the handler that calls fetch_youtube_data. *)
(* While run_pc is "fetching" the call is the traversal above.             *)
(***************************************************************************)
(* what the user may have typed into the query or the channel entry *)
RunEntries == {<<>>, <<" ">>, <<"q">>, <<" ", "q", " ">>}

RECURSIVE strip(_)
(* str.strip() *)
strip(s) ==
    IF s # <<>> /\ Head(s) = " " THEN strip(Tail(s))
    ELSE IF s # <<>> /\ s[Len(s)] = " " THEN strip(SubSeq(s, 1, Len(s) - 1))
    ELSE s

InitRun ==
    /\ run_pc = "idle"
    /\ search_query = <<>>
    /\ channel_id = <<>>

(* variant: the handler relies on fetch_youtube_data to look at the filter *)
on_run_button_click_noFilterCheck(api_key, query_entry, channel_entry, dates_ok) ==
    /\ run_pc = "idle"
    /\ search_query' = strip(query_entry)
    /\ channel_id' = strip(channel_entry)
    /\ run_pc' = IF ~api_key \/ ~dates_ok THEN "rejected" ELSE "fetching"
    /\ UNCHANGED <<searchVars, formatVars, batchVars, extractVars, guiVars>>

(* the button is pressed: the entries are read and validated, and
   fetch_youtube_data is called when they pass.  api_key tells whether
   YOUTUBE_API_KEY is set, dates_ok whether the dates given parse *)
on_run_button_click(api_key, query_entry, channel_entry, dates_ok) ==
    /\ run_pc = "idle"
    /\ search_query' = strip(query_entry)
    /\ channel_id' = strip(channel_entry)
    /\ run_pc' = IF \/ ~api_key
                    \/ search_query' = <<>> /\ channel_id' = <<>>
                    \/ ~dates_ok
                 THEN "rejected" ELSE "fetching"
    /\ UNCHANGED <<searchVars, formatVars, batchVars, extractVars, guiVars>>

(* fetch_youtube_data has returned or raised: the table is saved when there
   are records, the error shown when it raised *)
RunFinish ==
    /\ run_pc = "fetching"
    /\ fetch_pc \in {"returned", "raised"}
    /\ run_pc' = IF fetch_pc = "raised" THEN "error"
                 ELSE IF video_details # <<>> THEN "saved" ELSE "empty"
    /\ UNCHANGED <<search_query, channel_id>>
    /\ UNCHANGED <<searchVars, formatVars, batchVars, extractVars, guiVars>>

(***************************************************************************)
(* format_duration.  The argument is an ISO 8601 duration as the catalog   *)
(* sends it, "PnDTnHnMnS", given by its four fields; a field may exceed    *)
(* its clock range ("PT90M").  The result is a sequence of one-character   *)
(* strings.                                                                *)
(***************************************************************************)
Durations ==
    [days : 0..MaxDays, hours : {0, 1, 23, 25}, minutes : {0, 2, 59, 90},
     seconds : {0, 3, 59}]

(* isodate.parse_duration(duration).total_seconds() *)
total_seconds(duration) ==
    duration.days * 86400 + duration.hours * 3600 + duration.minutes * 60
        + duration.seconds

(* divmod(a, b) for a >= 0, b > 0 *)
divmod(a, b) == <<a \div b, a % b>>

DigitChar(d) == <<"0", "1", "2", "3", "4", "5", "6", "7", "8", "9">>[d + 1]

RECURSIVE Decimal(_)
(* str(n) for n >= 0 *)
Decimal(n) == IF n < 10 THEN <<DigitChar(n)>> ELSE Decimal(n \div 10) \o <<DigitChar(n % 10)>>

(* the format specification ":02" applied to an int: zero-filled to two
   places, never cut *)
ZeroFill2(n) == IF n < 10 THEN <<"0">> \o Decimal(n) ELSE Decimal(n)

(* variant: the hours are shown as on a clock, the days dropped *)
format_duration_clock(duration) ==
    LET hr == divmod(total_seconds(duration), 3600)
        ms == divmod(hr[2], 60)
    IN  ZeroFill2(hr[1] % 24) \o <<":">> \o ZeroFill2(ms[1]) \o <<":">> \o ZeroFill2(ms[2])

format_duration(duration) ==
    LET hr == divmod(total_seconds(duration), 3600)   \* hours, remainder
        ms == divmod(hr[2], 60)                       \* minutes, seconds
    IN  ZeroFill2(hr[1]) \o <<":">> \o ZeroFill2(ms[1]) \o <<":">> \o ZeroFill2(ms[2])

InitFormat ==
    /\ arg_duration = [days |-> 0, hours |-> 0, minutes |-> 0, seconds |-> 0]
    /\ ret_duration = <<>>

(* one call of format_duration *)
FormatCall(duration) ==
    /\ ret_duration = <<>>
    /\ arg_duration' = duration
    /\ ret_duration' = format_duration(duration)
    /\ UNCHANGED besideFormat

(***************************************************************************)
(* excel_summarizer.py                                                     *)
(*                                                                         *)
(* A text is a sequence of one-character strings.  A cell of the URL       *)
(* column is a text or, for an empty cell, the float NaN pandas puts there.*)
(***************************************************************************)
Text(chars) == [isstr |-> TRUE, s |-> chars]

NaN == [isstr |-> FALSE, s |-> <<>>]

(* Python None as a result of extract_video_id, and a string result *)
None == [found |-> FALSE, id |-> <<>>]

Some(chars) == [found |-> TRUE, id |-> chars]

(* the character class [a-zA-Z0-9_-] *)
IdChars ==
    {"a", "b", "c", "d", "e", "f", "g", "h", "i", "j", "k", "l", "m",
     "n", "o", "p", "q", "r", "s", "t", "u", "v", "w", "x", "y", "z",
     "A", "B", "C", "D", "E", "F", "G", "H", "I", "J", "K", "L", "M",
     "N", "O", "P", "Q", "R", "S", "T", "U", "V", "W", "X", "Y", "Z",
     "0", "1", "2", "3", "4", "5", "6", "7", "8", "9", "_", "-"}

(* sub in s *)
Contains(s, sub) ==
    \E i \in 1..(Len(s) - Len(sub) + 1) : SubSeq(s, i, i + Len(sub) - 1) = sub

(* s.split(c, 1)[0] and the rest after that first c (empty when c is absent) *)
BeforeFirst(s, c) ==
    IF \E i \in 1..Len(s) : s[i] = c
    THEN SubSeq(s, 1, (CHOOSE i \in 1..Len(s) :
                          s[i] = c /\ \A j \in 1..(i - 1) : s[j] # c) - 1)
    ELSE s

AfterFirst(s, c) ==
    IF \E i \in 1..Len(s) : s[i] = c
    THEN SubSeq(s, (CHOOSE i \in 1..Len(s) :
                       s[i] = c /\ \A j \in 1..(i - 1) : s[j] # c) + 1, Len(s))
    ELSE <<>>

(* s.split(c)[-1] *)
LastSegment(s, c) ==
    IF \E i \in 1..Len(s) : s[i] = c
    THEN SubSeq(s, (CHOOSE i \in 1..Len(s) :
                       s[i] = c /\ \A j \in (i + 1)..Len(s) : s[j] # c) + 1, Len(s))
    ELSE s

RECURSIVE Split(_, _)
(* s.split(c) *)
Split(s, c) ==
    IF \E i \in 1..Len(s) : s[i] = c
    THEN <<BeforeFirst(s, c)>> \o Split(AfterFirst(s, c), c)
    ELSE <<s>>

(* re.search(r'shorts/([a-zA-Z0-9_-]+)', s): group 1 of the leftmost match *)
ShortsMatch(s) ==
    LET lit == <<"s", "h", "o", "r", "t", "s", "/">>
        starts == {i \in 1..(Len(s) - Len(lit)) :
                      /\ SubSeq(s, i, i + Len(lit) - 1) = lit
                      /\ s[i + Len(lit)] \in IdChars}
    IN  IF starts = {} THEN None
        ELSE LET i == CHOOSE m \in starts : \A o \in starts : m <= o
                 from == i + Len(lit)
                 to == CHOOSE e \in from..Len(s) :
                          /\ \A k \in from..e : s[k] \in IdChars
                          /\ e = Len(s) \/ s[e + 1] \notin IdChars
             IN  Some(SubSeq(s, from, to))

(* urlparse(s).query: what follows the first '?' of the part before the
   first '#' *)
UrlQuery(s) == AfterFirst(BeforeFirst(s, "#"), "?")

(* parse_qs(q).get('v', [None])[0]: the first non-blank value named v *)
QueryParamV(q) ==
    LET pairs == Split(q, "&")
        hits == {k \in 1..Len(pairs) :
                    /\ Contains(pairs[k], <<"=">>)
                    /\ BeforeFirst(pairs[k], "=") = <<"v">>
                    /\ AfterFirst(pairs[k], "=") # <<>>}
    IN  IF hits = {} THEN None
        ELSE Some(AfterFirst(pairs[CHOOSE k \in hits : \A o \in hits : k <= o], "="))

extract_video_id(url) ==
    IF ~url.isstr \/ url.s = <<>> THEN None
    ELSE IF Contains(url.s, <<"s", "h", "o", "r", "t", "s">>)
            /\ ShortsMatch(url.s).found
         THEN ShortsMatch(url.s)
    ELSE IF Contains(url.s, <<"y", "o", "u", "t", "u", ".", "b", "e">>)
         THEN Some(BeforeFirst(LastSegment(url.s, "/"), "?"))
    ELSE IF Contains(url.s, <<"y", "o", "u", "t", "u", "b", "e", ".", "c", "o", "m">>)
            /\ UrlQuery(url.s) # <<>>
         THEN QueryParamV(UrlQuery(url.s))
    ELSE None

(***************************************************************************)
(* The references extract_video_id is called with.  A reference is built   *)
(* the way a URL is: an optional scheme and host prefix, the marker of its *)
(* shape, the identifier text, and what a share link may carry after it.   *)
(* The identifier text ranges over every string of up to MaxIdLen          *)
(* characters, among them one outside the identifier grammar.              *)
(***************************************************************************)
CandChars == {"a", "1", "_", "!"}

Candidates == UNION {[1..k -> CandChars] : k \in 0..MaxIdLen}

Schemes ==
    { <<>>,
      <<"h", "t", "t", "p", "s", ":", "/", "/">>,
      <<"h", "t", "t", "p", "s", ":", "/", "/", "w", "w", "w", ".">> }

WatchPrefix ==
    <<"y", "o", "u", "t", "u", "b", "e", ".", "c", "o", "m", "/",
      "w", "a", "t", "c", "h", "?", "v", "=">>

ShortPrefix == <<"y", "o", "u", "t", "u", ".", "b", "e", "/">>

ShortsPrefix ==
    <<"y", "o", "u", "t", "u", "b", "e", ".", "c", "o", "m", "/",
      "s", "h", "o", "r", "t", "s", "/">>

(* what follows the identifier: nothing, a time offset, or the feature
   parameter older share links of a watch page carry *)
Extras(shape) ==
    CASE shape = "watch" ->
            { <<>>,
              <<"&", "t", "=", "1">>,
              <<"&", "f", "e", "a", "t", "u", "r", "e", "=",
                "y", "o", "u", "t", "u", ".", "b", "e">> }
      [] shape \in {"short", "shorts"} ->
            { <<>>, <<"?", "t", "=", "1">> }
      [] OTHER -> { <<>> }

Reference(shape, scheme, cand, extra) ==
    CASE shape = "watch" -> Text(scheme \o WatchPrefix \o cand \o extra)
      [] shape = "short" -> Text(scheme \o ShortPrefix \o cand \o extra)
      [] shape = "shorts" -> Text(scheme \o ShortsPrefix \o cand \o extra)
      [] shape = "other" -> Text(scheme \o cand \o extra)
      [] shape = "nonstring" -> NaN

(* no call made yet *)
InitExtract ==
    /\ arg_url = NaN
    /\ ret_video_id = None
    /\ arg_shape = "none"
    /\ arg_embedded = <<>>

(* the call of extract_video_id *)
ExtractCall(shape, scheme, cand, extra) ==
    /\ arg_shape = "none"
    /\ arg_url' = Reference(shape, scheme, cand, extra)
    /\ ret_video_id' = extract_video_id(arg_url')
    /\ arg_shape' = shape
    /\ arg_embedded' = cand
    /\ UNCHANGED besideExtract

(* Python truth of a video id: neither None nor the empty string *)
Truthy(video_id) == video_id.found /\ video_id.id # <<>>

(* the cells the input table is drawn from:
   youtube.com/watch?v=a1 , youtu.be/ (an empty identifier), an empty cell *)
BatchUrls ==
    { Text(<<"y", "o", "u", "t", "u", "b", "e", ".", "c", "o", "m", "/",
             "w", "a", "t", "c", "h", "?", "v", "=", "a", "1">>),
      Text(<<"y", "o", "u", "t", "u", ".", "b", "e", "/">>),
      NaN }

InputTables == UNION {[1..n -> BatchUrls] : n \in 0..MaxRows}

(* get_video_title_async, get_video_summary_async *)
max_retries == 3

NoOutput == [written |-> FALSE, rows |-> <<>>]

(* the program after construction: no run started *)
InitBatch ==
    /\ processing = FALSE
    /\ worker_pc = "none"
    /\ df = <<>>
    /\ row = 0
    /\ results = <<>>
    /\ output = NoOutput
    /\ progress_var = [num |-> 0, den |-> 1]
    /\ attempt = 0
    /\ title = ""
    /\ transcript = ""
    /\ original_text = ""
    /\ summary = ""
    /\ gen_plan = 0
    /\ gen_attempts = 0
    /\ gen_delays = 0
    /\ call_log = <<>>
    /\ stop_in_flight = FALSE
    /\ exit = "none"

(* what a call of get_video_summary_async hands back: a pair, or an
   exception that leaves the coroutine *)
Returns(text, diag) == [raised |-> FALSE, text |-> text, summary |-> diag]

Raises == [raised |-> TRUE, text |-> "", summary |-> ""]

(* " ".join of the transcript entries, named by the transcript's language *)
FullText(lang) == IF lang = "ko" THEN "text(ko)" ELSE "text(en)"

(* variant: only TranscriptsDisabled is handled, anything else propagates *)
SummaryExcept_noCatchAll(exc) ==
    IF exc = "TranscriptsDisabled"
    THEN Returns("", "disabled")
    ELSE Raises

(* variant: no clause for TranscriptsDisabled, the catch-all takes it *)
SummaryExcept_noDisabledClause(exc) ==
    Returns("", CASE exc = "TranscriptsDisabled" -> "error: TranscriptsDisabled"
                  [] exc = "TransportError" -> "error: TransportError"
                  [] exc = "ValueError" -> "error: ValueError"
                  [] exc = "APIError" -> "error: APIError")

(* the except clauses that close get_video_summary_async *)
SummaryExcept(exc) ==
    IF exc = "TranscriptsDisabled"
    THEN Returns("", "disabled")
    ELSE Returns("", CASE exc = "TransportError" -> "error: TransportError"
                       [] exc = "ValueError" -> "error: ValueError"
                       [] exc = "APIError" -> "error: APIError")

(* variant: a cell with no usable identifier is passed over *)
AppendInvalid_skip(res, url) == res

(* the flagged record of a cell with no usable identifier *)
AppendInvalid(res, url) ==
    Append(res, [title |-> "invalid", URL |-> url, text |-> "", summary |-> "invalid url"])

(* variant: cancellation leaves the loop and falls through to the save *)
CancelReturn_break == [pc |-> "save", exit |-> "cancelled"]

(* the return inside the loop when the flag is found cleared *)
CancelReturn == [pc |-> "finally", exit |-> "cancelled"]

batchFrame == <<df, row, results, output, progress_var, attempt, title, transcript,
                original_text, summary, gen_plan, gen_attempts, gen_delays, call_log, exit>>

(* variant: the progress counts the rows completed, not the row started *)
Progress_completed(idx, total_rows) == [num |-> idx, den |-> total_rows]

(* progress = (index + 1) / total_rows, kept as a fraction; idx is the
   0-based label of the row the loop is starting *)
Progress(idx, total_rows) == [num |-> idx + 1, den |-> total_rows]

(* history: one thing the worker did for the row in hand, and its outcome *)
Did(svc, out) == [svc |-> svc, out |-> out]

(* the worker is inside a row: past the loop head, record not yet appended *)
InRow ==
    worker_pc \in {"title", "title_sleep", "transcript_ko", "transcript_en",
                   "keys", "generate"}

(* start_processing('excel'): the flag is set and the worker thread started *)
StartProcessing ==
    /\ ~processing
    /\ worker_pc = "none"
    /\ processing' = TRUE
    /\ progress_var' = [num |-> 0, den |-> 1]
    /\ worker_pc' = "read"
    /\ UNCHANGED <<df, row, results, output, attempt, title, transcript,
                   original_text, summary, gen_plan, gen_attempts, gen_delays, call_log,
                   stop_in_flight, exit>>
    /\ UNCHANGED besideBatch

(* stop_processing: the cooperative cancellation signal *)
StopProcessing ==
    /\ processing
    /\ processing' = FALSE
    /\ stop_in_flight' = InRow
    /\ UNCHANGED <<worker_pc, batchFrame>>
    /\ UNCHANGED besideBatch

(* pd.read_excel succeeds *)
ReadExcel(table) ==
    /\ worker_pc = "read"
    /\ df' = table
    /\ results' = <<>>
    /\ row' = 0
    /\ worker_pc' = "loop"
    /\ UNCHANGED <<processing, output, progress_var, attempt, title, transcript,
                   original_text, summary, gen_plan, gen_attempts, gen_delays, call_log,
                   stop_in_flight, exit>>
    /\ UNCHANGED besideBatch

(* pd.read_excel raises *)
ReadExcelFails ==
    /\ worker_pc = "read"
    /\ worker_pc' = "except"
    /\ exit' = "error_read"
    /\ UNCHANGED <<processing, df, row, results, output, progress_var, attempt, title,
                   transcript, original_text, summary, gen_plan, gen_attempts, gen_delays, call_log,
                   stop_in_flight>>
    /\ UNCHANGED besideBatch

(* the head of the for loop: the end of the table, the cancellation check,
   the identifier, the progress *)
LoopTop ==
    /\ worker_pc = "loop"
    /\ IF row = Len(df)
       THEN /\ worker_pc' = "save"
            /\ UNCHANGED <<results, row, progress_var, attempt, call_log,
                           stop_in_flight, exit>>
       ELSE IF ~processing
       THEN /\ worker_pc' = CancelReturn.pc
            /\ exit' = CancelReturn.exit
            /\ call_log' = <<Did("flag", "cleared")>>
            /\ UNCHANGED <<results, row, progress_var, attempt, stop_in_flight>>
       ELSE /\ progress_var' = Progress(row, Len(df))
            /\ stop_in_flight' = FALSE
            /\ IF Truthy(extract_video_id(df[row + 1]))
               THEN /\ worker_pc' = "title"
                    /\ attempt' = 0
                    /\ call_log' = <<Did("flag", "set"), Did("extract", "id")>>
                    /\ UNCHANGED <<results, row>>
               ELSE /\ results' = AppendInvalid(results, df[row + 1])
                    /\ row' = row + 1
                    /\ worker_pc' = "loop"
                    /\ call_log' = <<Did("flag", "set"), Did("extract", "none")>>
                    /\ UNCHANGED attempt
            /\ UNCHANGED exit
    /\ UNCHANGED <<processing, df, output, title, transcript, original_text, summary,
                   gen_plan, gen_attempts, gen_delays>>
    /\ UNCHANGED besideBatch

(* get_video_title_async hands back lookup, and the worker enters
   get_video_summary_async *)
TitleReturns(lookup) ==
    /\ title' = lookup
    /\ worker_pc' = "transcript_ko"
    /\ transcript' = ""
    /\ gen_plan' = 0
    /\ gen_attempts' = 0
    /\ gen_delays' = 0
    /\ UNCHANGED attempt

(* variant: the exception of the last attempt leaves get_video_title_async
   instead of being turned into a title *)
TitleAttempt_lastFailureRaises(outcome) ==
    /\ worker_pc = "title"
    /\ call_log' = Append(call_log, Did("title", outcome))
    /\ CASE outcome = "ok" ->
              /\ TitleReturns("title")
              /\ UNCHANGED exit
         [] outcome = "unavailable" ->
              /\ TitleReturns("title unavailable")
              /\ UNCHANGED exit
         [] outcome = "exception" ->
              IF attempt < max_retries - 1
              THEN /\ worker_pc' = "title_sleep"
                   /\ UNCHANGED <<title, transcript, gen_plan, gen_attempts,
                                  gen_delays, attempt, exit>>
              ELSE /\ worker_pc' = "except"
                   /\ exit' = "error_row"
                   /\ UNCHANGED <<title, transcript, gen_plan, gen_attempts,
                                  gen_delays, attempt>>
    /\ UNCHANGED <<processing, df, row, results, output, progress_var,
                   original_text, summary, stop_in_flight>>
    /\ UNCHANGED besideBatch

(* variant: an answer without a title is retried like an exception *)
TitleAttempt_retriesUnavailable(outcome) ==
    /\ worker_pc = "title"
    /\ call_log' = Append(call_log, Did("title", outcome))
    /\ CASE outcome = "ok" -> TitleReturns("title")
         [] outcome \in {"unavailable", "exception"} ->
              IF attempt < max_retries - 1
              THEN /\ worker_pc' = "title_sleep"
                   /\ UNCHANGED <<title, transcript, gen_plan, gen_attempts,
                                  gen_delays, attempt>>
              ELSE TitleReturns(IF outcome = "exception" THEN "title failed"
                                ELSE "title unavailable")
    /\ UNCHANGED <<processing, df, row, results, output, progress_var,
                   original_text, summary, stop_in_flight, exit>>
    /\ UNCHANGED besideBatch

(* one turn of the retry loop of get_video_title_async *)
TitleAttempt(outcome) ==
    /\ worker_pc = "title"
    /\ call_log' = Append(call_log, Did("title", outcome))
    /\ CASE outcome = "ok" -> TitleReturns("title")
         [] outcome = "unavailable" -> TitleReturns("title unavailable")
         [] outcome = "exception" ->
              IF attempt < max_retries - 1
              THEN /\ worker_pc' = "title_sleep"
                   /\ UNCHANGED <<title, transcript, gen_plan, gen_attempts,
                                  gen_delays, attempt>>
              ELSE TitleReturns("title failed")
    /\ UNCHANGED <<processing, df, row, results, output, progress_var,
                   original_text, summary, stop_in_flight, exit>>
    /\ UNCHANGED besideBatch

(* asyncio.sleep(retry_delay), then the next turn *)
TitleSleep ==
    /\ worker_pc = "title_sleep"
    /\ attempt' = attempt + 1
    /\ worker_pc' = "title"
    /\ call_log' = Append(call_log, Did("sleep", "retry_delay"))
    /\ UNCHANGED <<processing, df, row, results, output, progress_var, title, transcript,
                   original_text, summary, gen_plan, gen_attempts, gen_delays,
                   stop_in_flight, exit>>
    /\ UNCHANGED besideBatch

(* get_video_summary_async is over: the worker appends the row's record, or
   the exception reaches the worker's own handler *)
EndRow(ret) ==
    IF ret.raised
    THEN /\ worker_pc' = "except"
         /\ exit' = "error_row"
         /\ UNCHANGED <<original_text, summary, results, row>>
    ELSE /\ original_text' = ret.text
         /\ summary' = ret.summary
         /\ results' = Append(results, [title |-> title, URL |-> df[row + 1],
                                        text |-> ret.text, summary |-> ret.summary])
         /\ row' = row + 1
         /\ worker_pc' = "loop"
         /\ UNCHANGED exit

(* variant: the English transcript is requested even when the Korean one
   was found *)
FetchKo_alsoEn(outcome) ==
    /\ worker_pc = "transcript_ko"
    /\ call_log' = Append(call_log, Did("ko", outcome))
    /\ CASE outcome = "ok" ->
              /\ transcript' = "ko"
              /\ worker_pc' = "transcript_en"
              /\ UNCHANGED <<original_text, summary, results, row, exit>>
         [] outcome = "NoTranscriptFound" ->
              /\ worker_pc' = "transcript_en"
              /\ UNCHANGED <<transcript, original_text, summary, results, row, exit>>
         [] OTHER ->
              /\ EndRow(SummaryExcept(outcome))
              /\ UNCHANGED transcript
    /\ UNCHANGED <<processing, df, output, progress_var, attempt, title,
                   gen_plan, gen_attempts, gen_delays, stop_in_flight>>
    /\ UNCHANGED besideBatch

(* get_transcript(video_id, languages=['ko']) *)
FetchKo(outcome) ==
    /\ worker_pc = "transcript_ko"
    /\ call_log' = Append(call_log, Did("ko", outcome))
    /\ CASE outcome = "ok" ->
              /\ transcript' = "ko"
              /\ worker_pc' = "keys"
              /\ UNCHANGED <<original_text, summary, results, row, exit>>
         [] outcome = "NoTranscriptFound" ->
              /\ worker_pc' = "transcript_en"
              /\ UNCHANGED <<transcript, original_text, summary, results, row, exit>>
         [] OTHER ->
              /\ EndRow(SummaryExcept(outcome))
              /\ UNCHANGED transcript
    /\ UNCHANGED <<processing, df, output, progress_var, attempt, title,
                   gen_plan, gen_attempts, gen_delays, stop_in_flight>>
    /\ UNCHANGED besideBatch

(* variant: the English request has no handler of its own, so its
   NoTranscriptFound reaches the closing except clause *)
FetchEn_noInnerExcept(outcome) ==
    /\ worker_pc = "transcript_en"
    /\ call_log' = Append(call_log, Did("en", outcome))
    /\ CASE outcome = "ok" ->
              /\ transcript' = "en"
              /\ worker_pc' = "keys"
              /\ UNCHANGED <<original_text, summary, results, row, exit>>
         [] OTHER ->
              /\ EndRow(SummaryExcept(IF outcome = "NoTranscriptFound"
                                      THEN "TransportError" ELSE outcome))
              /\ UNCHANGED transcript
    /\ UNCHANGED <<processing, df, output, progress_var, attempt, title,
                   gen_plan, gen_attempts, gen_delays, stop_in_flight>>
    /\ UNCHANGED besideBatch

(* get_transcript(video_id, languages=['en']) *)
FetchEn(outcome) ==
    /\ worker_pc = "transcript_en"
    /\ call_log' = Append(call_log, Did("en", outcome))
    /\ CASE outcome = "ok" ->
              /\ transcript' = "en"
              /\ worker_pc' = "keys"
              /\ UNCHANGED <<original_text, summary, results, row, exit>>
         [] outcome = "NoTranscriptFound" ->
              /\ EndRow(Returns("", "no captions"))
              /\ UNCHANGED transcript
         [] OTHER ->
              /\ EndRow(SummaryExcept(outcome))
              /\ UNCHANGED transcript
    /\ UNCHANGED <<processing, df, output, progress_var, attempt, title,
                   gen_plan, gen_attempts, gen_delays, stop_in_flight>>
    /\ UNCHANGED besideBatch

(* variant: when the keys are missing the transcript already joined is
   handed back beside the diagnostic *)
LoadKeys_keepsTextOnFailure(present, plan) ==
    /\ worker_pc = "keys"
    /\ call_log' = Append(call_log, Did("keys", IF present THEN "ok" ELSE "ValueError"))
    /\ IF present
       THEN /\ worker_pc' = "generate"
            /\ gen_plan' = plan
            /\ UNCHANGED <<original_text, summary, results, row, exit>>
       ELSE /\ EndRow(Returns(FullText(transcript), "error: ValueError"))
            /\ UNCHANGED gen_plan
    /\ UNCHANGED <<processing, df, output, progress_var, attempt, title, transcript,
                   gen_attempts, gen_delays, stop_in_flight>>
    /\ UNCHANGED besideBatch

(* load_api_keys() inside the summary call; with the keys present the
   generation service is about to be asked, and will fail plan times before
   it would answer *)
LoadKeys(present, plan) ==
    /\ worker_pc = "keys"
    /\ call_log' = Append(call_log, Did("keys", IF present THEN "ok" ELSE "ValueError"))
    /\ IF present
       THEN /\ worker_pc' = "generate"
            /\ gen_plan' = plan
            /\ UNCHANGED <<original_text, summary, results, row, exit>>
       ELSE /\ EndRow(SummaryExcept("ValueError"))
            /\ UNCHANGED gen_plan
    /\ UNCHANGED <<processing, df, output, progress_var, attempt, title, transcript,
                   gen_attempts, gen_delays, stop_in_flight>>
    /\ UNCHANGED besideBatch

(* variant: the worker looks at the flag again before the generation
   request and abandons the row when it is cleared *)
Generate_checksFlag ==
    /\ worker_pc = "generate"
    /\ gen_attempts' = gen_attempts + 1
    /\ call_log' = Append(call_log, Did("generate", IF gen_plan < gen_attempts'
                                                     THEN "ok" ELSE "APIError"))
    /\ IF ~processing
       THEN /\ worker_pc' = "finally"
            /\ exit' = "cancelled"
            /\ UNCHANGED <<original_text, summary, results, row>>
       ELSE IF gen_plan < gen_attempts'
       THEN EndRow(Returns(FullText(transcript), "completion"))
       ELSE EndRow(SummaryExcept("APIError"))
    /\ UNCHANGED <<processing, df, output, progress_var, attempt, title, transcript,
                   gen_plan, gen_delays, stop_in_flight>>
    /\ UNCHANGED besideBatch

(* client.chat.completions.create: the one generation request of the call *)
Generate ==
    /\ worker_pc = "generate"
    /\ gen_attempts' = gen_attempts + 1
    /\ call_log' = Append(call_log, Did("generate", IF gen_plan < gen_attempts'
                                                     THEN "ok" ELSE "APIError"))
    /\ IF gen_plan < gen_attempts'
       THEN EndRow(Returns(FullText(transcript), "completion"))
       ELSE EndRow(SummaryExcept("APIError"))
    /\ UNCHANGED <<processing, df, output, progress_var, attempt, title, transcript,
                   gen_plan, gen_delays, stop_in_flight>>
    /\ UNCHANGED besideBatch

(* save_excel_with_formatting succeeds: the output table is the results *)
SaveOk ==
    /\ worker_pc = "save"
    /\ output' = [written |-> TRUE, rows |-> results]
    /\ exit' = "done"
    /\ worker_pc' = "finally"
    /\ UNCHANGED <<processing, df, row, results, progress_var, attempt, title, transcript,
                   original_text, summary, gen_plan, gen_attempts, gen_delays, call_log,
                   stop_in_flight>>
    /\ UNCHANGED besideBatch

(* save_excel_with_formatting raises *)
SaveFails ==
    /\ worker_pc = "save"
    /\ exit' = "error_save"
    /\ worker_pc' = "except"
    /\ UNCHANGED <<processing, df, row, results, output, progress_var, attempt, title,
                   transcript, original_text, summary, gen_plan, gen_attempts, gen_delays, call_log,
                   stop_in_flight>>
    /\ UNCHANGED besideBatch

(* the worker's except clause: status, log, message box *)
HandleError ==
    /\ worker_pc = "except"
    /\ worker_pc' = "finally"
    /\ UNCHANGED <<processing, batchFrame, stop_in_flight>>
    /\ UNCHANGED besideBatch

(* the worker's finally clause *)
Finally ==
    /\ worker_pc = "finally"
    /\ processing' = FALSE
    /\ worker_pc' = "ended"
    /\ UNCHANGED <<batchFrame, stop_in_flight>>
    /\ UNCHANGED besideBatch

(***************************************************************************)
(* YouTubeSummarizerGUI: the window's handlers and the threads they start. *)
(*                                                                         *)
(* The handlers run on the interface thread, one at a time; every worker   *)
(* thread runs beside them and beside the other workers.  What a worker    *)
(* does for one row (title, transcript, generation) is the batch run       *)
(* above; here it is the single stretch "calls" during which requests are  *)
(* in flight.                                                              *)
(***************************************************************************)

(* the text of the URL entry: the cells above that are strings, or only
   blanks *)
UrlEntries == {c \in BatchUrls : c.isstr} \cup {Text(<<>>)}

(* a thread as Thread(target=...).start() creates it *)
NewThread(mode, entry) ==
    [mode |-> mode,
     pc |-> IF mode = "excel" THEN "read" ELSE "begin",
     url |-> IF mode = "url" THEN entry ELSE Text(<<>>),  \* process_url_thread's argument
     total_rows |-> 0,       \* process_excel_thread: len(df)
     row |-> 0,              \* rows whose record is appended
     result |-> "",          \* what process_single_url returned
     saved |-> 0,            \* records in the table the thread wrote
     cancelled |-> FALSE]    \* history: stop_processing cleared the flag under it

InitGui ==
    /\ threads = <<>>
    /\ buttons = [excel_start |-> TRUE, excel_stop |-> FALSE,
                  url_start |-> TRUE, url_stop |-> FALSE]
    /\ current_tab = "url"
    /\ dialog = "none"
    /\ window = "open"

(* the handlers the user can reach: the window exists and no messagebox holds
   the grab *)
Idle == window = "open" /\ dialog = "none"

(* the user selects a notebook tab *)
SelectTab(tab) ==
    /\ Idle
    /\ current_tab # tab
    /\ current_tab' = tab
    /\ UNCHANGED <<threads, buttons, dialog, window, processing, progress_var>>
    /\ UNCHANGED besideGui

(* start_processing from "self.processing = True" to thread.start() *)
StartThread(mode, entry) ==
    /\ processing' = TRUE
    /\ progress_var' = [num |-> 0, den |-> 1]
    /\ buttons' = IF mode = "excel"
                  THEN [buttons EXCEPT !.excel_start = FALSE, !.excel_stop = TRUE]
                  ELSE [buttons EXCEPT !.url_start = FALSE, !.url_stop = TRUE]
    /\ threads' = Append(threads, NewThread(mode, entry))

(* variant: the keys are looked up only after the thread has been started *)
start_processing_keysCheckedLate(mode, keys, paths, entry) ==
    /\ Idle
    /\ current_tab = mode
    /\ IF mode = "excel" THEN buttons.excel_start ELSE buttons.url_start
    /\ Len(threads) < MaxThreads
    /\ IF processing
       THEN UNCHANGED <<processing, progress_var, threads, buttons, dialog>>
       ELSE IF (mode = "excel" /\ ~paths) \/ (mode = "url" /\ entry.s = <<>>)
       THEN /\ dialog' = "error"
            /\ UNCHANGED <<processing, progress_var, threads, buttons>>
       ELSE /\ StartThread(mode, entry)
            /\ dialog' = IF keys THEN "none" ELSE "api_key_error"
    /\ UNCHANGED <<current_tab, window>>
    /\ UNCHANGED besideGui

(* the start button of the selected tab is pressed: start_processing(mode).
   keys tells whether load_api_keys finds both keys, paths whether the input
   and output paths are set, entry is the text of the URL entry *)
start_processing(mode, keys, paths, entry) ==
    /\ Idle
    /\ current_tab = mode
    /\ IF mode = "excel" THEN buttons.excel_start ELSE buttons.url_start
    /\ Len(threads) < MaxThreads
    /\ IF processing
       THEN UNCHANGED <<processing, progress_var, threads, buttons, dialog>>
       ELSE IF ~keys
       THEN /\ dialog' = "api_key_error"
            /\ UNCHANGED <<processing, progress_var, threads, buttons>>
       ELSE IF (mode = "excel" /\ ~paths) \/ (mode = "url" /\ entry.s = <<>>)
       THEN /\ dialog' = "error"
            /\ UNCHANGED <<processing, progress_var, threads, buttons>>
       ELSE /\ StartThread(mode, entry)
            /\ UNCHANGED dialog
    /\ UNCHANGED <<current_tab, window>>
    /\ UNCHANGED besideGui

(* the user closes the messagebox and start_processing returns *)
DismissDialog ==
    /\ window = "open"
    /\ dialog # "none"
    /\ dialog' = "none"
    /\ UNCHANGED <<threads, buttons, current_tab, window, processing, progress_var>>
    /\ UNCHANGED besideGui

(* a thread that is running its target function *)
Alive(th) == th.pc \notin {"ended", "killed"}

(* the stop button of the selected tab is pressed: stop_processing *)
stop_processing ==
    /\ Idle
    /\ IF current_tab = "excel" THEN buttons.excel_stop ELSE buttons.url_stop
    /\ IF processing
       THEN /\ processing' = FALSE
            /\ buttons' = IF current_tab = "url"
                          THEN [buttons EXCEPT !.url_start = TRUE, !.url_stop = FALSE]
                          ELSE [buttons EXCEPT !.excel_start = TRUE, !.excel_stop = FALSE]
            /\ threads' = [t \in 1..Len(threads) |->
                             IF threads[t].mode = "excel" /\ Alive(threads[t])
                             THEN [threads[t] EXCEPT !.cancelled = TRUE]
                             ELSE threads[t]]
       ELSE UNCHANGED <<processing, buttons, threads>>
    /\ UNCHANGED <<current_tab, dialog, window, progress_var>>
    /\ UNCHANGED besideGui

(* a daemon thread the interpreter dropped when the main thread returned *)
Killed(mode) ==
    [mode |-> mode, pc |-> "killed", url |-> Text(<<>>), total_rows |-> 0, row |-> 0,
     result |-> "", saved |-> 0, cancelled |-> FALSE]

(* the exit button or the window's close box: exit_program.  confirm is the
   answer to the question asked when a run is in progress.  After
   root.destroy() mainloop returns, main returns, and the daemon threads go
   with the process. *)
exit_program(confirm) ==
    /\ Idle
    /\ IF processing /\ ~confirm
       THEN UNCHANGED <<processing, window, threads>>
       ELSE /\ processing' = FALSE
            /\ window' = "closed"
            /\ threads' = [t \in 1..Len(threads) |->
                             IF Alive(threads[t]) THEN Killed(threads[t].mode)
                             ELSE threads[t]]
    /\ UNCHANGED <<buttons, current_tab, dialog, progress_var>>
    /\ UNCHANGED besideGui

(* a thread whose target function has returned: its locals are gone *)
Ended(mode) ==
    [mode |-> mode, pc |-> "ended", url |-> Text(<<>>), total_rows |-> 0, row |-> 0,
     result |-> "", saved |-> 0, cancelled |-> FALSE]

(* thread t moves to pc *)
Goto(t, pc) == [threads EXCEPT ![t].pc = pc]

(* process_excel_thread: pd.read_excel returns a table of n rows, or raises
   and the except clause reports it *)
excel_read(t, n, ok) ==
    /\ threads[t].mode = "excel"
    /\ threads[t].pc = "read"
    /\ threads' = IF ok
                  THEN [threads EXCEPT ![t].pc = "loop", ![t].total_rows = n]
                  ELSE Goto(t, "finally")
    /\ UNCHANGED <<buttons, current_tab, dialog, window, processing, progress_var>>
    /\ UNCHANGED besideGui

(* process_excel_thread: the head of the for loop; valid tells whether the
   row's cell holds an identifier *)
excel_loop(t, valid) ==
    /\ threads[t].mode = "excel"
    /\ threads[t].pc = "loop"
    /\ IF threads[t].row = threads[t].total_rows
       THEN /\ threads' = Goto(t, "save")
            /\ UNCHANGED progress_var
       ELSE IF ~processing
       THEN /\ threads' = Goto(t, "finally")
            /\ UNCHANGED progress_var
       ELSE /\ progress_var' = Progress(threads[t].row, threads[t].total_rows)
            /\ threads' = IF valid
                          THEN Goto(t, "calls")
                          ELSE [threads EXCEPT ![t].row = @ + 1]
    /\ UNCHANGED <<buttons, current_tab, dialog, window, processing>>
    /\ UNCHANGED besideGui

(* process_excel_thread: the title and summary calls of the row are over and
   its record is appended *)
excel_row(t) ==
    /\ threads[t].mode = "excel"
    /\ threads[t].pc = "calls"
    /\ threads' = [threads EXCEPT ![t].pc = "loop", ![t].row = @ + 1]
    /\ UNCHANGED <<buttons, current_tab, dialog, window, processing, progress_var>>
    /\ UNCHANGED besideGui

(* process_excel_thread: save_excel_with_formatting writes the table, or
   raises and the except clause reports it *)
excel_save(t, ok) ==
    /\ threads[t].mode = "excel"
    /\ threads[t].pc = "save"
    /\ threads' = IF ok
                  THEN [threads EXCEPT ![t].pc = "finally", ![t].saved = threads[t].row]
                  ELSE Goto(t, "finally")
    /\ UNCHANGED <<buttons, current_tab, dialog, window, processing, progress_var>>
    /\ UNCHANGED besideGui

(* variant: the finally clause clears the flag and leaves the buttons *)
excel_finally_keepsButtons(t) ==
    /\ threads[t].mode = "excel"
    /\ threads[t].pc = "finally"
    /\ processing' = FALSE
    /\ threads' = [threads EXCEPT ![t] = Ended("excel")]
    /\ UNCHANGED <<buttons, current_tab, dialog, window, progress_var>>
    /\ UNCHANGED besideGui

(* process_excel_thread: the finally clause *)
excel_finally(t) ==
    /\ threads[t].mode = "excel"
    /\ threads[t].pc = "finally"
    /\ processing' = FALSE
    /\ buttons' = [buttons EXCEPT !.excel_start = TRUE, !.excel_stop = FALSE]
    /\ threads' = [threads EXCEPT ![t] = Ended("excel")]
    /\ UNCHANGED <<current_tab, dialog, window, progress_var>>
    /\ UNCHANGED besideGui

(* variant: single-URL mode writes a flagged record for an input without
   identifier, as the batch loop does *)
SingleInvalid_flaggedRecord == [pc |-> "finish", result |-> "invalid url", saved |-> 1]

(* process_single_url: the return for an input without identifier *)
SingleInvalid == [pc |-> "finish", result |-> "invalid url", saved |-> 0]

(* process_single_url: "if not video_id" after extract_video_id(url), for
   every text of the URL entry *)
EntryHasId == [entry \in UrlEntries |-> Truthy(extract_video_id(entry))]

(* process_url_thread up to the first request of process_single_url: the
   progress, the identifier *)
url_begin(t) ==
    /\ threads[t].mode = "url"
    /\ threads[t].pc = "begin"
    /\ progress_var' = [num |-> 20, den |-> 100]
    /\ threads' = IF EntryHasId[threads[t].url]
                  THEN Goto(t, "calls")
                  ELSE [threads EXCEPT ![t].pc = SingleInvalid.pc,
                                       ![t].result = SingleInvalid.result,
                                       ![t].saved = SingleInvalid.saved]
    /\ UNCHANGED <<buttons, current_tab, dialog, window, processing>>
    /\ UNCHANGED besideGui

(* process_single_url: the title and summary calls are over; the one-record
   table is saved and the result text returned, or the save raises and the
   error text is returned *)
url_save(t, ok) ==
    /\ threads[t].mode = "url"
    /\ threads[t].pc = "calls"
    /\ threads' = IF ok
                  THEN [threads EXCEPT ![t].pc = "finish", ![t].result = "summary",
                                       ![t].saved = 1]
                  ELSE [threads EXCEPT ![t].pc = "finish", ![t].result = "error"]
    /\ UNCHANGED <<buttons, current_tab, dialog, window, processing, progress_var>>
    /\ UNCHANGED besideGui

(* process_url_thread after process_single_url: the progress, the result box *)
url_finish(t) ==
    /\ threads[t].mode = "url"
    /\ threads[t].pc = "finish"
    /\ progress_var' = [num |-> 100, den |-> 100]
    /\ threads' = Goto(t, "finally")
    /\ UNCHANGED <<buttons, current_tab, dialog, window, processing>>
    /\ UNCHANGED besideGui

(* process_url_thread: the finally clause *)
url_finally(t) ==
    /\ threads[t].mode = "url"
    /\ threads[t].pc = "finally"
    /\ processing' = FALSE
    /\ buttons' = [buttons EXCEPT !.url_start = TRUE]
    /\ threads' = [threads EXCEPT ![t] = Ended("url")]
    /\ UNCHANGED <<current_tab, dialog, window, progress_var>>
    /\ UNCHANGED besideGui

(***************************************************************************)
(* Specifications                                                          *)
(***************************************************************************)
Init == InitSearch /\ InitRun /\ InitFormat /\ InitBatch /\ InitExtract /\ InitGui

NextSearch ==
    \/ SearchFails
    \/ \E n \in 0..MaxResults, tok \in Tokens \cup {NoToken} : SearchResponds(n, tok)
    \/ DetailFails
    \/ DetailEmpty
    \/ DetailOk
    \/ DetailMalformed
    \/ PageEnd

NextRun ==
    \/ \E api_key \in BOOLEAN, query_entry \in RunEntries, channel_entry \in RunEntries,
          dates_ok \in BOOLEAN :
          on_run_button_click(api_key, query_entry, channel_entry, dates_ok)
    \/ run_pc = "fetching" /\ NextSearch
    \/ RunFinish

NextFormat == \E duration \in Durations : FormatCall(duration)

NextBatch ==
    \/ StartProcessing
    \/ StopProcessing
    \/ \E table \in InputTables : ReadExcel(table)
    \/ ReadExcelFails
    \/ LoopTop
    \/ \E o \in {"ok", "unavailable", "exception"} : TitleAttempt(o)
    \/ TitleSleep
    \/ \E o \in {"ok", "NoTranscriptFound", "TranscriptsDisabled", "TransportError"} :
          FetchKo(o)
    \/ \E o \in {"ok", "NoTranscriptFound", "TranscriptsDisabled", "TransportError"} :
          FetchEn(o)
    \/ \E present \in BOOLEAN, plan \in 0..MaxGenFailures : LoadKeys(present, plan)
    \/ Generate
    \/ SaveOk
    \/ SaveFails
    \/ HandleError
    \/ Finally

NextExtract ==
    \E shape \in {"watch", "short", "shorts", "other", "nonstring"},
       scheme \in Schemes, cand \in Candidates :
       \E extra \in Extras(shape) : ExtractCall(shape, scheme, cand, extra)

NextGui ==
    \/ \E tab \in {"url", "excel"} : SelectTab(tab)
    \/ \E mode \in {"url", "excel"}, keys \in BOOLEAN, paths \in BOOLEAN,
          entry \in UrlEntries : start_processing(mode, keys, paths, entry)
    \/ DismissDialog
    \/ stop_processing
    \/ \E confirm \in BOOLEAN : exit_program(confirm)
    \/ \E t \in 1..Len(threads), n \in 0..MaxRows, ok \in BOOLEAN : excel_read(t, n, ok)
    \/ \E t \in 1..Len(threads), valid \in BOOLEAN : excel_loop(t, valid)
    \/ \E t \in 1..Len(threads) : excel_row(t)
    \/ \E t \in 1..Len(threads), ok \in BOOLEAN : excel_save(t, ok)
    \/ \E t \in 1..Len(threads) : excel_finally(t)
    \/ \E t \in 1..Len(threads) : url_begin(t)
    \/ \E t \in 1..Len(threads), ok \in BOOLEAN : url_save(t, ok)
    \/ \E t \in 1..Len(threads) : url_finish(t)
    \/ \E t \in 1..Len(threads) : url_finally(t)

(* one call of fetch_youtube_data *)
SpecSearch == Init /\ [][NextSearch]_vars

(* the loop runs whenever it can: the interpreter never stops mid-call *)
SpecSearchFair == SpecSearch /\ WF_vars(NextSearch)

(* one press of the run button *)
SpecRun == Init /\ [][NextRun]_vars

(* one call of format_duration with an arbitrary duration *)
SpecFormat == Init /\ [][NextFormat]_vars

(* one batch run of the summarizer *)
SpecBatch == Init /\ [][NextBatch]_vars

(* one call of extract_video_id with an arbitrary reference *)
SpecExtract == Init /\ [][NextExtract]_vars

(* one session of the window *)
SpecGui == Init /\ [][NextGui]_vars

(* what thread t can do next *)
ThreadStep(t) ==
    /\ t <= Len(threads)
    /\ \/ \E n \in 0..MaxRows, ok \in BOOLEAN : excel_read(t, n, ok)
       \/ \E valid \in BOOLEAN : excel_loop(t, valid)
       \/ excel_row(t)
       \/ \E ok \in BOOLEAN : excel_save(t, ok)
       \/ excel_finally(t)
       \/ url_begin(t)
       \/ \E ok \in BOOLEAN : url_save(t, ok)
       \/ url_finish(t)
       \/ url_finally(t)

(* every thread is scheduled, and every read, request and write it waits
   for comes back, with a result or with an exception *)
SpecGuiFair == SpecGui /\ \A t \in 1..MaxThreads : WF_vars(ThreadStep(t))

(***************************************************************************)
(* Properties of the batch run                                             *)
(***************************************************************************)

(* the diagnostics get_video_summary_async returns in place of a summary *)
Diagnostics ==
    {"no captions", "disabled",
     "error: TransportError", "error: ValueError", "error: APIError"}

(* C1: a batch run that is not cancelled collects one record per input row,
   in input order, whatever the cells hold and whatever the title, transcript
   and generation services answer; the table it writes has exactly the input's
   row count; and no row outcome ends the run early: the only other ways out
   are the cancellation and a failure to read the input or write the output. *)
C1_OutputRowPerInputRow ==
    /\ worker_pc = "save" =>
          /\ Len(results) = Len(df)
          /\ \A k \in 1..Len(df) : results[k].URL = df[k]
    /\ exit = "done" =>
          /\ output.written
          /\ Len(output.rows) = Len(df)
          /\ \A k \in 1..Len(df) : output.rows[k].URL = df[k]
    /\ exit \in {"none", "done", "cancelled", "error_read", "error_save"}

(* C1 witness: a completed two-row run whose first cell has no identifier and
   whose second row's video could not be summarised. *)
C1_Witness ==
    /\ exit = "done"
    /\ Len(df) = 2
    /\ ~Truthy(extract_video_id(df[1]))
    /\ Truthy(extract_video_id(df[2]))
    /\ output.rows[1].summary = "invalid url"
    /\ output.rows[2].summary \in Diagnostics

(* C2 as stated: after a cancellation observed with k rows completed, the
   output table holds exactly those k rows. *)
C2_CancelledOutputHoldsCompletedRows ==
    (exit = "cancelled" /\ Len(results) >= 1) =>
        /\ output.written
        /\ output.rows = results

(* C2 as amended: when the worker finds the flag cleared with k rows
   completed (k < n) it starts none of the rows k+1..n and leaves through its
   finally clause without writing an output table; the k completed records,
   in input order, exist only in its results list. *)
C2_CancelledRunWritesNothing ==
    exit = "cancelled" =>
        /\ worker_pc \in {"finally", "ended"}
        /\ ~output.written
        /\ row < Len(df)
        /\ Len(results) = row
        /\ \A k \in 1..row : results[k].URL = df[k]

(* C2 witness: the cancellation was observed after the first row of two. *)
C2_Witness ==
    /\ exit = "cancelled"
    /\ worker_pc = "ended"
    /\ Len(df) = 2
    /\ Len(results) = 1

(* C3: a summary call whose generation request fails twice and would succeed
   the third time returns the completion after exactly 3 generation requests
   and 2 delays. *)
C3_ThirdGenerationAttemptSucceeds ==
    (gen_plan = 2 /\ gen_attempts >= 1 /\ worker_pc # "generate") =>
        /\ summary = "completion"
        /\ gen_attempts = 3
        /\ gen_delays = 2

(* C4: no failure inside get_video_summary_async reaches the worker's own
   handler: the call always hands back a pair, a completion with its text or
   a diagnostic with the empty text, the worker appends it and goes on to the
   next row. *)
C4_SummaryFailuresBecomeDiagnostics ==
    /\ exit # "error_row"
    /\ worker_pc = "except" => exit \in {"error_read", "error_save"}
    /\ \A k \in 1..Len(results) :
          \/ results[k].summary = "invalid url"
          \/ results[k].summary = "completion" /\ results[k].text # ""
          \/ results[k].summary \in Diagnostics /\ results[k].text = ""
    /\ worker_pc \in {"loop", "title", "title_sleep", "transcript_ko",
                      "transcript_en", "keys", "generate"} => Len(results) = row

(* C4 witness: the first row's generation request failed, the second row was
   still processed and summarised, and the run completed. *)
C4_Witness ==
    /\ exit = "done"
    /\ Len(results) = 2
    /\ results[1].summary = "error: APIError"
    /\ results[2].summary = "completion"


(***************************************************************************)
(* Properties of fetch_youtube_data                                        *)
(***************************************************************************)

(* the hits visited so far whose outcome is o *)
HitsWith(o) == {j \in 1..Len(hitLog) : hitLog[j].outcome = o}

(* the hits that were enriched, in discovery order *)
OkHits ==
    LET IsOk(e) == e.outcome = "ok"
        Name(e) == e.hit
        ok == SelectSeq(hitLog, IsOk)
    IN  [k \in 1..Len(ok) |-> Name(ok[k])]

(* where the catalog handed a hit out, counted over the whole traversal *)
Ordinal(h) == h.pos + h.prior

Finished == fetch_pc \in {"returned", "raised"}

(* C5: the traversal visits at most HitCap hits in aggregate, and no page is
   requested after a response that carried no continuation cursor. *)
C5_AtMostCapAndStopsAtLastPage ==
    /\ Len(hitLog) <= HitCap
    /\ (fetch_pc = "request" /\ started) => next_page_token # NoToken

(* C6: the pagination loop terminates whatever the catalog answers. *)
C6_PaginationTerminates == <>Finished

(* C7: a hit whose detail request fails at transport level is skipped and
   nothing else is: the records are exactly the hits not skipped (N - M when
   every other detail response holds the video), and after a normal return
   every hit of every page has been visited and the loop ended only by its
   own exit test. *)
C7_FailedHitsSkippedOnly ==
    /\ Len(video_details) =
          Len(hitLog) - Cardinality(HitsWith("transport"))
                      - Cardinality(HitsWith("empty"))
                      - Cardinality(HitsWith("malformed"))
    /\ (fetch_pc = "returned" /\ ~pageFailed) =>
          /\ Len(hitLog) = total_results_fetched
          /\ StopPaging(next_page_token, total_results_fetched)
    /\ fetch_pc = "raised" => hitLog[Len(hitLog)].outcome = "malformed"

(* C7 witness: a two-page traversal returned normally in which the first hit
   failed at transport level, a later hit on a later page was enriched, and
   every detail response that arrived held the video. *)
C7_Witness ==
    /\ fetch_pc = "returned"
    /\ ~pageFailed
    /\ Len(hitLog) >= 2
    /\ hitLog[1].outcome = "transport"
    /\ hitLog[Len(hitLog)].outcome = "ok"
    /\ hitLog[Len(hitLog)].hit.prior > 0
    /\ HitsWith("empty") = {}
    /\ Len(video_details) = Len(hitLog) - Cardinality(HitsWith("transport"))

(* C8: once a search request has failed at transport level the call has
   returned (not raised), nothing further can happen, and what it returns is
   exactly the records of the hits of the pages completed before. *)
C8_PageFailureReturnsEarlierPages ==
    pageFailed =>
        /\ fetch_pc = "returned"
        /\ ~ENABLED NextSearch
        /\ Len(hitLog) = total_results_fetched
        /\ [k \in 1..Len(video_details) |-> video_details[k].URL] = OkHits

(* C8 witness: the request for the third page failed after two pages that
   both yielded records. *)
C8_Witness ==
    /\ pageFailed
    /\ fetch_pc = "returned"
    /\ Len(video_details) >= 2
    /\ video_details[1].URL.prior = 0
    /\ video_details[Len(video_details)].URL.prior > 0

(* C9 as stated: the k-th returned record has Index k, whatever the per-hit
   enrichment outcomes. *)
C9_DenseIndex ==
    fetch_pc = "returned" =>
        \A k \in 1..Len(video_details) : video_details[k].Index = k

(* C9 as amended: Index is strictly increasing along the result; the Index
   values are exactly the discovery positions of the hits that were enriched,
   so each skipped hit leaves its own position missing; and when no hit was
   skipped the k-th record has Index k. *)
C9_IndexIncreasingGapsAtSkippedHits ==
    /\ \A k \in 1..(Len(video_details) - 1) :
          video_details[k].Index < video_details[k + 1].Index
    /\ {video_details[k].Index : k \in 1..Len(video_details)} = HitsWith("ok")
    /\ HitsWith("ok") = 1..Len(hitLog) =>
          \A k \in 1..Len(video_details) : video_details[k].Index = k

(* C9 witness: a returned two-page traversal with a skipped hit between two
   enriched ones. *)
C9_Witness ==
    /\ fetch_pc = "returned"
    /\ Len(video_details) >= 2
    /\ video_details[1].Index = 1
    /\ video_details[2].Index = 3
    /\ video_details[2].URL.prior > 0

(* C10: every record's Index is its hit's position in its page plus the
   number of hits on the pages before; no two records share an Index, and
   records are ordered as their hits were discovered. *)
C10_IndexIsPositionPlusPriorHits ==
    /\ \A k \in 1..Len(video_details) :
          video_details[k].Index =
              video_details[k].URL.pos + video_details[k].URL.prior
    /\ \A j, k \in 1..Len(video_details) :
          /\ j # k => video_details[j].Index # video_details[k].Index
          /\ j < k <=> video_details[j].Index < video_details[k].Index
          /\ j < k <=> Ordinal(video_details[j].URL) < Ordinal(video_details[k].URL)

(* C10 witness: a record of the second page whose Index is offset by the
   hits of a first page that held more than one hit. *)
C10_Witness ==
    /\ fetch_pc = "returned"
    /\ \E k \in 1..Len(video_details) :
          /\ video_details[k].URL.prior >= 2
          /\ video_details[k].URL.pos >= 2
          /\ video_details[k].Index = video_details[k].URL.pos + video_details[k].URL.prior

(***************************************************************************)
(* Properties of the calls made for one row                                *)
(***************************************************************************)

(* the places of call_log where svc was called *)
Calls(svc) == {i \in 1..Len(call_log) : call_log[i].svc = svc}

(* the outcomes svc answered with for the row in hand *)
Outcomes(svc) == {call_log[i].out : i \in Calls(svc)}

(* C11: for every row, the English transcript is requested at most once and
   only as the step right after a Korean request that answered
   NoTranscriptFound; when the Korean request succeeded, or failed any other
   way, no English request is made. *)
C11_FallbackOnlyAfterPreferredNotFound ==
    /\ Cardinality(Calls("ko")) <= 1
    /\ Cardinality(Calls("en")) <= 1
    /\ \A i \in Calls("en") :
          i > 1 /\ call_log[i - 1] = Did("ko", "NoTranscriptFound")
    /\ Outcomes("ko") # {"NoTranscriptFound"} => Calls("en") = {}
    /\ worker_pc = "transcript_en" => Outcomes("ko") = {"NoTranscriptFound"}

(* C11 witness: a row whose Korean transcript was found has been summarised
   and appended, and no English request was made for it. *)
C11_Witness ==
    /\ worker_pc = "loop"
    /\ row >= 1
    /\ Outcomes("ko") = {"ok"}
    /\ Outcomes("generate") = {"ok"}
    /\ Calls("en") = {}
    /\ results[row].summary = "completion"

(* the log in hand is that of a row whose summary call is over: its record
   is the last of results *)
SummaryCallOver == ~InRow /\ Calls("ko") # {}

(* C12: when the Korean transcript is not found and the English one is, the
   English transcript is the one in hand when the generation request is made
   and its text is the original text of a completion; when neither is found
   the row's record holds the empty text and the no-captions diagnostic, and
   neither the keys nor the generation service were asked. *)
C12_FallbackUsedOrNoCaptions ==
    /\ (Outcomes("ko") = {"NoTranscriptFound"} /\ Outcomes("en") = {"ok"}) =>
          /\ transcript = "en"
          /\ (SummaryCallOver /\ Outcomes("generate") = {"ok"}) =>
                /\ results[Len(results)].text = FullText("en")
                /\ results[Len(results)].summary = "completion"
    /\ (Outcomes("ko") = {"NoTranscriptFound"}
          /\ Outcomes("en") = {"NoTranscriptFound"}) =>
          /\ SummaryCallOver
          /\ results[Len(results)].text = ""
          /\ results[Len(results)].summary = "no captions"
          /\ Calls("keys") = {}
          /\ Calls("generate") = {}

(* C12 witness: a first row with neither transcript, recorded with the
   no-captions diagnostic, then a second row summarised from its English
   transcript. *)
C12_Witness ==
    /\ SummaryCallOver
    /\ Len(results) = 2
    /\ results[1].summary = "no captions"
    /\ results[1].text = ""
    /\ Outcomes("ko") = {"NoTranscriptFound"}
    /\ Outcomes("en") = {"ok"}
    /\ results[2].text = FullText("en")
    /\ results[2].summary = "completion"

(* C13: a TranscriptsDisabled answer, to the Korean or to the English
   request, is the last call made for the row: the record holds the empty
   text and the disabled diagnostic, and no transcript, keys or generation
   call follows it. *)
C13_DisabledShortCircuits ==
    "TranscriptsDisabled" \in (Outcomes("ko") \cup Outcomes("en")) =>
        /\ SummaryCallOver
        /\ call_log[Len(call_log)].out = "TranscriptsDisabled"
        /\ call_log[Len(call_log)].svc \in {"ko", "en"}
        /\ results[Len(results)].summary = "disabled"
        /\ results[Len(results)].text = ""
        /\ Calls("keys") = {}
        /\ Calls("generate") = {}

(* C13 witness: captions were found disabled during the Korean request of
   the first row and during the English request of the second. *)
C13_Witness ==
    /\ SummaryCallOver
    /\ Len(results) = 2
    /\ results[1].summary = "disabled"
    /\ results[2].summary = "disabled"
    /\ Outcomes("ko") = {"NoTranscriptFound"}
    /\ Outcomes("en") = {"TranscriptsDisabled"}

(* the flag was read once for the row in hand, before anything else *)
FlagReadOnceFirst ==
    call_log # <<>> =>
        /\ call_log[1].svc = "flag"
        /\ Calls("flag") = {1}

(* a step taken while a row is in flight either stays inside the row or
   ends it by appending its record, whatever the flag holds *)
RowRunsToItsRecord ==
    InRow =>
        \/ InRow' /\ results' = results /\ row' = row
        \/ /\ worker_pc' = "loop"
           /\ Len(results') = Len(results) + 1
           /\ results'[Len(results')].URL = df[row + 1]
           /\ row' = row + 1

(* C17: for every row the worker reads self.processing exactly once, as the
   first thing it does for the row, before the identifier is extracted and
   before any title, transcript, keys or generation call; and once a row is
   in flight no step abandons it: a stop_processing that runs meanwhile
   leaves the row to complete and its record to be appended. *)
C17_FlagReadOncePerRowBeforeItsWork ==
    []FlagReadOnceFirst /\ [][RowRunsToItsRecord]_vars

(* C17 witness: stop_processing ran while the second row was in flight, and
   that row was still summarised and appended. *)
C17_Witness ==
    /\ worker_pc = "loop"
    /\ stop_in_flight
    /\ ~processing
    /\ row = 2
    /\ Len(results) = 2
    /\ Outcomes("generate") = {"ok"}
    /\ results[2].summary = "completion"

(* the batch worker is between its read and its save *)
InLoop == worker_pc = "loop" \/ InRow

(* C18 as stated: during a batch the progress shown is always the number of
   records appended so far over the number of rows. *)
C18_ProgressIsAppendedOverTotal ==
    InLoop => progress_var.num * Len(df) = Len(results) * progress_var.den

(* C18 as amended: the progress for row i is i/n and is set when the row is
   started, before any of its work: while the row is in flight the progress
   is one row ahead of the records appended, and it equals the records
   appended over n only between the row's append and the start of the next
   row; before the first row it is the 0 start_processing set. *)
C18_ProgressSetWhenRowStarts ==
    /\ InRow => progress_var = [num |-> Len(results) + 1, den |-> Len(df)]
    /\ (worker_pc = "loop" /\ row >= 1) =>
          progress_var = [num |-> Len(results), den |-> Len(df)]
    /\ (worker_pc = "loop" /\ row = 0) => progress_var = [num |-> 0, den |-> 1]
    /\ InRow => Calls("flag") = {1} /\ Len(results) = row

(* C18 witness: the last of two rows is in flight, nothing of it is done
   beyond the flag and the identifier, and the progress already shows 2/2. *)
C18_Witness ==
    /\ worker_pc = "title"
    /\ Len(df) = 2
    /\ Len(results) = 1
    /\ Len(call_log) = 2
    /\ progress_var = [num |-> 2, den |-> 2]

(* the title attempts made for the row in hand up to place i of the log *)
TitleAttemptsUpTo(i) == Cardinality({j \in Calls("title") : j <= i})

(* what follows the title attempt at place i of the log: the delay when the
   attempt raised and attempts are left, the summary call otherwise *)
AfterTitleAttempt(i) ==
    IF call_log[i].out = "exception" /\ TitleAttemptsUpTo(i) < max_retries
    THEN [svc |-> "sleep", pc |-> "title_sleep"]
    ELSE [svc |-> "ko", pc |-> "transcript_ko"]

(* C20: for every row the title lookup makes at most max_retries attempts
   and at most max_retries - 1 delays; a delay comes only right after an
   attempt that raised and is followed by the next attempt; the attempt that
   yields a title or the placeholder is the last; after the last attempt,
   raised or not, the lookup has returned (the failure text after the third
   exception) and the summary call of the same row begins: the title stage
   never reaches the worker's exception handler. *)
C20_TitleLookupBoundedRetry ==
    /\ Cardinality(Calls("title")) <= max_retries
    /\ Cardinality(Calls("sleep")) <= max_retries - 1
    /\ \A i \in Calls("sleep") :
          /\ call_log[i - 1] = Did("title", "exception")
          /\ IF i < Len(call_log)
             THEN call_log[i + 1].svc = "title"
             ELSE worker_pc = "title"
    /\ \A i \in Calls("title") :
          IF i < Len(call_log)
          THEN call_log[i + 1].svc = AfterTitleAttempt(i).svc
          ELSE worker_pc = AfterTitleAttempt(i).pc
    /\ Calls("ko") # {} =>
          LET last == CHOOSE i \in Calls("title") : \A j \in Calls("title") : j <= i
          IN  title = CASE call_log[last].out = "ok" -> "title"
                        [] call_log[last].out = "unavailable" -> "title unavailable"
                        [] call_log[last].out = "exception" -> "title failed"
    /\ SummaryCallOver => results[Len(results)].title = title
    /\ exit # "error_row"

(* C20 witness: all three title attempts of a row raised, with two delays
   between them; the row was still summarised and is recorded under the
   failure text. *)
C20_Witness ==
    /\ SummaryCallOver
    /\ Cardinality(Calls("title")) = 3
    /\ Outcomes("title") = {"exception"}
    /\ Cardinality(Calls("sleep")) = 2
    /\ results[Len(results)].title = "title failed"
    /\ results[Len(results)].summary = "completion"

(* a transcript was fetched for the row in hand *)
TranscriptFetched == "ok" \in Outcomes("ko") \cup Outcomes("en")

(* C29: the text component of what the summary call returns is not empty
   only beside a completion of a generation request that succeeded; every
   diagnostic comes with the empty text, also when a transcript had been
   fetched and joined before the failure. *)
C29_TextOnlyWithCompletion ==
    /\ SummaryCallOver =>
          /\ results[Len(results)].text = original_text
          /\ results[Len(results)].summary = summary
          /\ original_text # "" =>
                /\ summary = "completion"
                /\ TranscriptFetched
                /\ "ok" \in Outcomes("generate")
          /\ summary # "completion" => original_text = ""
    /\ \A k \in 1..Len(results) :
          results[k].text # "" => results[k].summary = "completion"

(* C29 witness: the Korean transcript of a row was fetched, the generation
   request failed, and the record holds the diagnostic and no text. *)
C29_Witness ==
    /\ SummaryCallOver
    /\ Outcomes("ko") = {"ok"}
    /\ Outcomes("generate") = {"APIError"}
    /\ results[Len(results)].summary = "error: APIError"
    /\ results[Len(results)].text = ""

(* C30: the title lookup makes another attempt, and sleeps before it, only
   after an attempt that raised; an attempt answered with another status
   than 200 or with no items is the last, is followed by no delay, and the
   title is the fixed placeholder. *)
C30_TitleRetryOnlyOnException ==
    /\ \A i \in Calls("title") :
          call_log[i].out = "unavailable" =>
             /\ \A j \in Calls("title") \cup Calls("sleep") : j <= i
             /\ i < Len(call_log) => call_log[i + 1].svc = "ko"
             /\ i = Len(call_log) => worker_pc = "transcript_ko" /\ title = "title unavailable"
             /\ Calls("ko") # {} => title = "title unavailable"
    /\ \A i \in Calls("title") \cup Calls("sleep") :
          (\E j \in Calls("title") : j < i) =>
             \A j \in Calls("title") : j < i => call_log[j].out = "exception"

(* C30 witness: the second attempt of a row, made after a first that raised,
   was answered without items; the row was summarised and is recorded under
   the placeholder, one delay and no third attempt having been made. *)
C30_Witness ==
    /\ SummaryCallOver
    /\ Cardinality(Calls("title")) = 2
    /\ Cardinality(Calls("sleep")) = 1
    /\ "unavailable" \in Outcomes("title")
    /\ results[Len(results)].title = "title unavailable"
    /\ results[Len(results)].summary = "completion"

(***************************************************************************)
(* Properties of extract_video_id                                          *)
(***************************************************************************)

(* the identifier grammar: a non-empty string over [a-zA-Z0-9_-] *)
InGrammar(s) == s # <<>> /\ \A i \in 1..Len(s) : s[i] \in IdChars

(* C14: a watch, short-link or shorts reference built around an identifier
   yields exactly that identifier; a string with none of the three markers,
   the empty string and a non-string value yield None. *)
C14_ExtractsEmbeddedIdentifier ==
    /\ (arg_shape \in {"watch", "short", "shorts"} /\ InGrammar(arg_embedded)) =>
          ret_video_id = Some(arg_embedded)
    /\ arg_shape \in {"other", "nonstring"} => ret_video_id = None

(* C15: whatever extract_video_id returns other than None is in the
   identifier grammar, and a watch or short-link reference whose identifier
   text is not in the grammar yields None. *)
C15_ResultInGrammar ==
    /\ ret_video_id.found => InGrammar(ret_video_id.id)
    /\ (arg_shape \in {"watch", "short"} /\ ~InGrammar(arg_embedded)) =>
          ret_video_id = None

(***************************************************************************)
(* Properties of the window and its threads                                *)
(***************************************************************************)

(* the threads running process_url_thread, and those running
   process_excel_thread *)
UrlThreads == {t \in 1..Len(threads) : threads[t].mode = "url"}

ExcelThreads == {t \in 1..Len(threads) : threads[t].mode = "excel"}

(* process_single_url has returned in thread t, which has not ended yet *)
SingleUrlOver(t) == threads[t].pc \in {"finish", "finally"}

(* C16 as stated: a single-URL run whose input holds no identifier has
   written exactly one record once process_single_url is over, and so has
   every single-URL run. *)
C16_SingleUrlAlwaysOneRecord ==
    \A t \in UrlThreads :
        SingleUrlOver(t) =>
            /\ ~Truthy(extract_video_id(threads[t].url)) => threads[t].saved = 1
            /\ threads[t].saved = 1

(* C16 as amended: a single-URL run whose input holds no identifier makes no
   request and writes no table, its only outcome is the invalid-URL text; a
   run whose input holds an identifier writes exactly one record when the
   save succeeds and none, with the error text, when the save raises. *)
C16_SingleUrlRecordOnlyWhenExtractedAndSaved ==
    \A t \in UrlThreads :
        LET valid == Truthy(extract_video_id(threads[t].url))
        IN  /\ threads[t].pc = "calls" => valid /\ threads[t].saved = 0
            /\ SingleUrlOver(t) =>
                  IF valid
                  THEN \/ threads[t].saved = 1 /\ threads[t].result = "summary"
                       \/ threads[t].saved = 0 /\ threads[t].result = "error"
                  ELSE threads[t].saved = 0 /\ threads[t].result = "invalid url"

(* C16 witness: a single-URL run over an input without identifier is about
   to end with the invalid-URL text and no table written. *)
C16_Witness ==
    \E t \in UrlThreads :
        /\ threads[t].pc = "finally"
        /\ ~Truthy(extract_video_id(threads[t].url))
        /\ threads[t].result = "invalid url"
        /\ threads[t].saved = 0

(* batch worker t is processing rows: the requests of a row are in flight,
   or it is at the head of its loop with rows still to go *)
ProcessingRows(t) ==
    \/ threads[t].pc = "calls"
    \/ threads[t].pc = "loop" /\ threads[t].row < threads[t].total_rows

(* C19: whatever the order of start_processing, stop_processing and thread
   steps, at most one batch worker is processing rows, so no two workers
   have requests in flight together and no two write the progress or collect
   results at the same time. *)
C19_AtMostOneWorkerProcessingRows ==
    Cardinality({t \in ExcelThreads : ProcessingRows(t)}) <= 1

(* C21: a start_processing that finds a credential missing (it opens the API
   key messagebox) starts no thread, leaves the flag false and the buttons as
   they were; no thread moves in that step, so that no title, transcript or
   generation request is issued by it. *)
C21_MissingCredentialRejectsRun ==
    [][(dialog = "none" /\ dialog' = "api_key_error") =>
          /\ ~processing /\ ~processing'
          /\ threads' = threads
          /\ buttons' = buttons
          /\ progress_var' = progress_var]_vars

(* C21 witness: after a first run has ended, a second start_processing found
   a credential missing: the messagebox is open, the flag is false, no second
   thread exists. *)
C21_Witness ==
    /\ dialog = "api_key_error"
    /\ Len(threads) = 1
    /\ threads[1].pc = "ended"
    /\ ~processing

(***************************************************************************)
(* Properties of format_duration                                           *)
(***************************************************************************)
Digit == {"0", "1", "2", "3", "4", "5", "6", "7", "8", "9"}

(* the value of the digit c *)
DigitValue(c) == CHOOSE d \in 0..9 : DigitChar(d) = c

RECURSIVE Numeral(_)
(* the number a string of digits denotes *)
Numeral(s) ==
    IF s = <<>> THEN 0
    ELSE 10 * Numeral(SubSeq(s, 1, Len(s) - 1)) + DigitValue(s[Len(s)])

FormatReturned == ret_duration # <<>>

(* C22: for every non-negative duration of total t seconds the result is
   three fields of digits joined by colons; the first denotes t div 3600,
   whatever its size, in at least two places and with no zero in front
   beyond the second place; the second denotes (t mod 3600) div 60 and the
   third t mod 60, each in exactly two places.  Zero seconds give
   "00:00:00" and 3723 seconds "01:02:03". *)
C22_FormatIsWideHoursMinutesSeconds ==
    /\ FormatReturned =>
          LET t == total_seconds(arg_duration)
              f == Split(ret_duration, ":")
          IN  /\ Len(f) = 3
              /\ \A k \in 1..3 : \A i \in 1..Len(f[k]) : f[k][i] \in Digit
              /\ Len(f[1]) >= 2 /\ Len(f[2]) = 2 /\ Len(f[3]) = 2
              /\ Len(f[1]) > 2 => f[1][1] # "0"
              /\ Numeral(f[1]) = t \div 3600
              /\ Numeral(f[2]) = (t % 3600) \div 60
              /\ Numeral(f[3]) = t % 60
              /\ t = 0 => ret_duration = <<"0", "0", ":", "0", "0", ":", "0", "0">>
              /\ t = 3723 => ret_duration = <<"0", "1", ":", "0", "2", ":", "0", "3">>
    /\ format_duration([days |-> 0, hours |-> 0, minutes |-> 0, seconds |-> 0])
          = <<"0", "0", ":", "0", "0", ":", "0", "0">>
    /\ format_duration([days |-> 0, hours |-> 0, minutes |-> 0, seconds |-> 3723])
          = <<"0", "1", ":", "0", "2", ":", "0", "3">>

(* C22 witness: a duration of more than four days, whose minutes field alone
   holds more than an hour, came back with a three-digit hours field. *)
C22_Witness ==
    /\ FormatReturned
    /\ arg_duration.days = MaxDays
    /\ arg_duration.minutes = 90
    /\ total_seconds(arg_duration) >= 100 * 3600
    /\ Len(Split(ret_duration, ":")[1]) = 3

(***************************************************************************)
(* Properties of the run button's handler and of the page requests         *)
(***************************************************************************)
(* a search request has been sent: it was answered or it failed *)
RequestIssued == started \/ pageFailed

(* C23: a search request is issued only for a filter of which the query or
   the channel id, blanks stripped, is not empty. *)
C23_NoSearchWithoutQueryOrChannel ==
    RequestIssued => search_query # <<>> \/ channel_id # <<>>

(* C23 witness: a traversal run for a channel id alone, the query entry
   empty, has returned records that were saved. *)
C23_Witness ==
    /\ RequestIssued
    /\ search_query = <<>>
    /\ channel_id = <<"q">>
    /\ run_pc = "saved"

(* C24: a failure while one hit is enriched, a detail response lacking a
   field the code indexes included, costs that hit only: the call does not
   raise, and once it has returned without a failed page request every hit of
   every page was visited and every hit whose detail response was complete
   has its record. *)
C24_PerHitFailuresIsolated ==
    /\ fetch_pc # "raised"
    /\ (Finished /\ ~pageFailed) =>
          /\ Len(hitLog) = total_results_fetched
          /\ Len(video_details) = Cardinality(HitsWith("ok"))

(* the last search request carried the cursor of the response before it, and
   none when there was no response before it *)
RequestCarriesPrecedingCursor ==
    RequestIssued =>
       IF prev_response.any
       THEN prev_response.token # NoToken /\ request_token = prev_response.token
       ELSE request_token = NoToken

(* a failed search request is the last request *)
NoRequestAfterFailure ==
    pageFailed => UNCHANGED <<request_token, prev_response, last_response, started>>

(* C25: the first page request carries no cursor; every later one carries
   the cursor of the response immediately before it, so that each returned
   cursor serves one request, the next; after a failed request no request is
   made, with or without cursor. *)
C25_CursorFromPrecedingResponse ==
    []RequestCarriesPrecedingCursor /\ [][NoRequestAfterFailure]_vars

(* C25 witness: the second request carried the first response's cursor, the
   second response returned another cursor, and the third request is about
   to be made. *)
C25_Witness ==
    /\ fetch_pc = "request"
    /\ prev_response.any
    /\ request_token = prev_response.token
    /\ last_response.token \notin {NoToken, request_token}
    /\ next_page_token = last_response.token

(* thread t starts a row in this step: it leaves the loop head for the row's
   requests, or records the row at once as one without identifier *)
StartsRow(t) ==
    /\ threads[t].pc = "loop"
    /\ threads'[t].pc = "calls" \/ threads'[t].row > threads[t].row

(* C26: a batch worker under which stop_processing has cleared the flag
   starts no row afterwards, whatever handlers run in between. *)
C26_CancelledWorkerStartsNoRow ==
    [][\A t \in ExcelThreads : threads[t].cancelled => ~StartsRow(t)]_vars

(* thread t leaves its finally clause in this step *)
Terminates(t) == threads[t].pc = "finally" /\ threads'[t].pc = "ended"

(* C27: while a run is in progress, that is while the flag set by the last
   start_processing is still set, the only thread whose finally clause clears
   it is the thread of that run, the last one started. *)
C27_FinallyClearsOnlyOwnRun ==
    [][\A t \in 1..Len(threads) :
          (processing /\ Terminates(t)) => t = Len(threads)]_vars

(* thread t returns from its target function in this step *)
Ends(t) == Alive(threads[t]) /\ threads'[t].pc = "ended"

(* the start button of the tab a thread of this mode was started from *)
StartEnabled(mode, b) == IF mode = "excel" THEN b.excel_start ELSE b.url_start

(* a thread ends with the flag false and its start button enabled *)
EndsReadyForNewRun ==
    \A t \in 1..Len(threads) :
       Ends(t) => ~processing' /\ StartEnabled(threads[t].mode, buttons')

(* thread t, once started, has ended or has gone with the process *)
Over(t) == t <= Len(threads) /\ ~Alive(threads[t])

(* C28: every thread start_processing starts comes to its end, whether its
   work completes, is cancelled or raises, unless the window is closed and
   the process ends first; the step in which it ends leaves the flag false
   and the start button of its tab enabled. *)
C28_EveryWorkerEndsReadyForNewRun ==
    /\ \A t \in 1..MaxThreads : (t <= Len(threads)) ~> Over(t)
    /\ [][EndsReadyForNewRun]_vars

(* C28 witness: a batch worker that was cancelled and a later one whose save
   raised have both ended; the flag is false and the start button enabled. *)
C28_Witness ==
    /\ Len(threads) = 2
    /\ \A t \in 1..2 : threads[t].mode = "excel" /\ threads[t].pc = "ended"
    /\ ~processing
    /\ buttons.excel_start
    /\ window = "open"

====
